---------------------------- MODULE Spec2Model ----------------------------
(***************************************************************************)
(* A model of the typing-test core of dvors: the word-progress state       *)
(* machine (src/src/word.rs), the statistics of a lesson's TestResults     *)
(* and the lesson's input loop (src/src/typingtest.rs), the key remapping, *)
(* the word sampler and the lessons loop of main (src/src/main.rs), and    *)
(* the characters of the keys (src/src/keyboard.rs).                       *)
(*                                                                         *)
(* A Rust char is a one-character string; the character U+00E9 (two bytes  *)
(* in UTF-8) is the string "U+00E9".  A Rust String or &str is a sequence  *)
(* of chars.  A Duration is a whole number of seconds.                     *)
(***************************************************************************)
EXTENDS Integers, Sequences, FiniteSets, TLC

VARIABLES
    pc,              \* position of the modelled function or harness
    test_word,       \* typing_test: the Word in progress (or MovedWord)
    test_words,      \* typing_test: the queue of words still to come
    finished_words,  \* typing_test: the FinishedWords collected so far
    start_char,      \* typing_test: SystemTime of the last reset
    now,             \* the system clock, in seconds
    nops,            \* number of operations applied so far (bounded)
    last,            \* history: the last operation, its inputs and the Word before it
    mis_cur,         \* history: mismatching in-range add_char calls on test_word
    mis_fin,         \* history: the same, summed over the finished words
    word_list,       \* get_test_words: the corpus
    allowed,         \* get_test_words: the allowed character set
    amount,          \* get_test_words: the requested number of words
    words,           \* get_test_words: the queue being filled
    word,            \* get_test_words: the last word drawn
    t_key,           \* history: time of the last key event of any kind
    t_char,          \* history: time of the last character key event
    lesson,          \* main: number of the lesson in hand (0 outside main)
    mpc,             \* main: position in the 'lessons loop
    report,          \* main: the figures printed for the last finished lesson
    event_code,      \* the key code handed to map_qwerty_to_dvorak
    mapped,          \* the key code it returned
    pressed          \* Keyboard: the key shown as pressed (an Option<Key>)

vars == <<pc, test_word, test_words, finished_words, start_char, now, nops,
          last, mis_cur, mis_fin, word_list, allowed, amount, words, word,
          t_key, t_char, lesson, mpc, report, event_code, mapped, pressed>>

wordVars == <<test_word, test_words, finished_words, start_char, now, nops,
              last, mis_cur, mis_fin, t_key, t_char>>

samplerVars == <<word_list, allowed, amount, words, word>>

mainVars == <<lesson, mpc, report>>

keyVars == <<event_code, mapped, pressed>>

-----------------------------------------------------------------------------
(* Bounds of the model. *)

MaxLen == 2
MaxDur == 1
MaxOps == 3
MaxStatOps == 5
MaxQueue == 2
MaxKeys == 2
MaxTime == 1
MaxKeysLong == 7
MaxAmount == 2
MaxQueueKeys == 5
MaxMainKeys == 2
LessonAmount == 1

-----------------------------------------------------------------------------
(* Characters and strings. *)

NonAscii == "U+00E9"

NoChar == "None"

Durations == 0..MaxDur

SeqsUpTo(S, n) == UNION {[1..k -> S] : k \in 0..n}

\* char::len_utf8, as String::len counts it
len_utf8(c) == IF c = NonAscii THEN 2 ELSE 1

RECURSIVE str_len(_)
\* String::len: the length of a string in bytes
str_len(s) == IF s = <<>> THEN 0 ELSE len_utf8(Head(s)) + str_len(Tail(s))

\* str::chars().count()
chars_count(s) == Len(s)

\* str::chars().nth(idx)
chars_nth(s, idx) == IF idx < Len(s) THEN s[idx + 1] ELSE NoChar

\* String::pop
str_pop(s) == IF s = <<>> THEN s ELSE SubSeq(s, 1, Len(s) - 1)

-----------------------------------------------------------------------------
(* src/src/metrics.rs *)

Delimiter(value, duration) ==
    [kind |-> "Delimiter", value |-> value, duration |-> duration]

Match(value, duration) ==
    [kind |-> "Match", value |-> value, duration |-> duration]

Typo(value, expected, duration) ==
    [kind |-> "Typo", value |-> value, expected |-> expected, duration |-> duration]

-----------------------------------------------------------------------------
(* src/src/word.rs *)

\* impl From<&str> for Word
WordFrom(string) == [value |-> string, typed |-> <<>>, metrics |-> <<>>]

\* a Word that has been moved out of (consumed by finalise, or dropped)
MovedWord == [moved |-> TRUE]

IsWord(w) == "value" \in DOMAIN w

\* impl From<Word> for FinishedWord
FinishedFrom(w) == [value |-> w.value, metrics |-> w.metrics]

FinishedWord_len(fw) == chars_count(fw.value)

\* mutant: the word's length without its delimiter
len_no_delim(fw) == FinishedWord_len(fw)

len_inc_delim(fw) == FinishedWord_len(fw) + 1

char_at(w, idx) == chars_nth(w.value, idx)

len(w) == chars_count(w.value)

\* mutant: the typed length taken in bytes, as String::len would give it
typed_len_bytes(w) == str_len(w.typed)

typed_len(w) == chars_count(w.typed)

\* usize::saturating_sub
saturating_sub(a, b) == IF a >= b THEN a - b ELSE 0

overflow(w) == saturating_sub(typed_len(w), len(w))

\* the index add_char looks the expected character up at: self.typed.len()
add_char_idx(w) == str_len(w.typed)

add_char_push(metrics, m) == Append(metrics, m)

add_char(w, typed, duration) ==
    LET expected == char_at(w, add_char_idx(w))
        metrics  == IF expected # NoChar
                      THEN IF typed # expected
                             THEN add_char_push(w.metrics, Typo(typed, expected, duration))
                             ELSE add_char_push(w.metrics, Match(typed, duration))
                      ELSE w.metrics
    IN  [value |-> w.value, typed |-> Append(w.typed, typed), metrics |-> metrics]

\* mutant: a backspace that also retracts the last recorded metric
remove_char_retract(w) ==
    [w EXCEPT !.typed = str_pop(w.typed), !.metrics = str_pop(w.metrics)]

\* mutant: a backspace that drops a byte count's worth of characters
remove_char_bytes(w) ==
    [w EXCEPT !.typed =
        IF w.typed = <<>> THEN w.typed
        ELSE SubSeq(w.typed, 1,
                    saturating_sub(Len(w.typed), len_utf8(w.typed[Len(w.typed)])))]

remove_char(w) == [w EXCEPT !.typed = str_pop(w.typed)]

\* mutant: completeness decided by the lengths alone
is_complete_by_len(w) == chars_count(w.value) = chars_count(w.typed)

is_complete(w) == w.value = w.typed

\* mutant: the confirming keystroke logged as a Match
finalise_as_match(w, typed, duration) ==
    FinishedFrom([w EXCEPT !.metrics = Append(w.metrics, Match(typed, duration))])

finalise(w, typed, duration) ==
    FinishedFrom([w EXCEPT !.metrics = Append(w.metrics, Delimiter(typed, duration))])

-----------------------------------------------------------------------------
(* src/src/typingtest.rs: TestResults.  An f64 that is not negative is a   *)
(* fraction [num, den]: den = 0 with num > 0 is +infinity, 0/0 is NaN.     *)
(* The fractions are exact: the rounding of f64 arithmetic is not modelled.*)

CharsPerWord == 5

SecsPerMin == 60

\* usize as f64, Duration::as_secs_f64, and an f64 literal
f64(n) == [num |-> n, den |-> 1]

\* f64 division of values that are not negative
f64_div(a, b) == [num |-> a.num * b.den, den |-> a.den * b.num]

f64_is_finite(a) == a.den # 0

f64_is_inf(a) == a.den = 0 /\ a.num # 0

word_cnt(tr) == Len(tr)

RECURSIVE char_cnt(_)
char_cnt(tr) ==
    IF tr = <<>> THEN 0
    ELSE char_cnt(SubSeq(tr, 1, Len(tr) - 1)) + len_inc_delim(tr[Len(tr)])

\* mutant: only the time of the typed characters counts, not the delimiter's
metric_duration_typing_only(metric) ==
    IF metric.kind \in {"Match", "Typo"} THEN metric.duration ELSE 0

\* the match of duration_secs: every kind of metric carries a duration
metric_duration(metric) ==
    IF metric.kind \in {"Delimiter", "Match", "Typo"} THEN metric.duration ELSE 0

RECURSIVE metrics_duration(_)
\* the inner fold of duration_secs
metrics_duration(metrics) ==
    IF metrics = <<>> THEN 0
    ELSE metrics_duration(SubSeq(metrics, 1, Len(metrics) - 1))
           + metric_duration(metrics[Len(metrics)])

RECURSIVE total_duration(_)
\* the outer fold of duration_secs
total_duration(tr) ==
    IF tr = <<>> THEN 0
    ELSE total_duration(SubSeq(tr, 1, Len(tr) - 1))
           + metrics_duration(tr[Len(tr)].metrics)

duration_secs(tr) == f64(total_duration(tr))

wpm_avg(tr) ==
    LET words_typed == f64_div(f64(char_cnt(tr)), f64(CharsPerWord))
    IN  IF tr # <<>>
          THEN f64_div(words_typed, f64_div(duration_secs(tr), f64(SecsPerMin)))
          ELSE f64(0)

is_typo(metric) == metric.kind = "Typo"

RECURSIVE metrics_typos(_)
\* the inner fold of typo_cnt
metrics_typos(metrics) ==
    IF metrics = <<>> THEN 0
    ELSE metrics_typos(SubSeq(metrics, 1, Len(metrics) - 1))
           + (IF is_typo(metrics[Len(metrics)]) THEN 1 ELSE 0)

RECURSIVE typo_cnt(_)
typo_cnt(tr) ==
    IF tr = <<>> THEN 0
    ELSE typo_cnt(SubSeq(tr, 1, Len(tr) - 1)) + metrics_typos(tr[Len(tr)].metrics)

-----------------------------------------------------------------------------
(* A harness of the Word API: one Word, any interleaving of add_char,      *)
(* remove_char and finalise on it, with any characters and durations.      *)

WordChars == {"a", NonAscii}

ApiChars == WordChars \cup {" "}

Targets == SeqsUpTo(WordChars, MaxLen)

NoOp == [op |-> "none"]

NoWord == <<>>

NoReport == [lesson |-> 0]

NoKey == [kind |-> "None"]

\* main is not running
MainIdle ==
    /\ lesson = 0
    /\ mpc = "none"
    /\ report = NoReport

\* no key code has been remapped
\* Option<Key>
None == [some |-> FALSE]

Some(key) == [some |-> TRUE, key |-> key]

\* no key code has been remapped or looked up: Keyboard::default()
KeyIdle ==
    /\ event_code = NoKey
    /\ mapped = NoKey
    /\ pressed = None

Idle ==
    /\ test_words = <<>>
    /\ start_char = 0
    /\ now = 0
    /\ mis_cur = 0
    /\ mis_fin = 0
    /\ t_key = 0
    /\ t_char = 0
    /\ MainIdle
    /\ KeyIdle

SamplerIdle ==
    /\ word_list = <<>>
    /\ allowed = {}
    /\ amount = 0
    /\ words = <<>>
    /\ word = <<>>

InitWord ==
    /\ pc = "word"
    /\ test_word \in {WordFrom(T) : T \in Targets}
    /\ finished_words = <<>>
    /\ nops = 0
    /\ last = NoOp
    /\ Idle
    /\ SamplerIdle

InApi == pc \in {"word", "stats"}

OpsBound == IF pc = "word" THEN MaxOps ELSE MaxStatOps

ApiFrame == UNCHANGED <<pc, test_words, start_char, now, mis_cur, mis_fin,
                        t_key, t_char>>
               /\ UNCHANGED samplerVars
               /\ UNCHANGED mainVars
               /\ UNCHANGED keyVars

ApiAddChar(c, dt) ==
    /\ InApi
    /\ IsWord(test_word)
    /\ nops < OpsBound
    /\ test_word' = add_char(test_word, c, dt)
    /\ last' = [op |-> "add_char", c |-> c, dt |-> dt, pre |-> test_word]
    /\ nops' = nops + 1
    /\ UNCHANGED finished_words
    /\ ApiFrame

ApiRemoveChar ==
    /\ InApi
    /\ IsWord(test_word)
    /\ nops < OpsBound
    /\ test_word' = remove_char(test_word)
    /\ last' = [op |-> "remove_char", pre |-> test_word]
    /\ nops' = nops + 1
    /\ UNCHANGED finished_words
    /\ ApiFrame

ApiFinalise(c, dt) ==
    /\ InApi
    /\ IsWord(test_word)
    /\ nops < OpsBound
    /\ finished_words' = Append(finished_words, finalise(test_word, c, dt))
    /\ test_word' = MovedWord
    /\ last' = [op |-> "finalise", c |-> c, dt |-> dt, pre |-> test_word]
    /\ nops' = nops + 1
    /\ ApiFrame

NextWord ==
    \/ \E c \in ApiChars, dt \in Durations : ApiAddChar(c, dt)
    \/ ApiRemoveChar
    \/ \E c \in ApiChars, dt \in Durations : ApiFinalise(c, dt)

SpecWord == InitWord /\ [][NextWord]_vars

-----------------------------------------------------------------------------
(* A harness of TestResults: FinishedWords are built through the Word API  *)
(* (the expected character or a wrong one, then finalise at any point) and *)
(* collected in finished_words, the vector TestResults wraps.              *)

WrongChar == "x"

StatTargets == {<<"t", "e", "s", "t">>, <<"a">>}

StatInputs(w) ==
    IF IsWord(w) THEN {chars_nth(w.value, typed_len(w)), WrongChar} \ {NoChar} ELSE {}

InitStats ==
    /\ pc = "stats"
    /\ test_word \in {WordFrom(T) : T \in StatTargets}
    /\ finished_words = <<>>
    /\ nops = 0
    /\ last = NoOp
    /\ Idle
    /\ SamplerIdle

ApiNewWord(T) ==
    /\ InApi
    /\ ~IsWord(test_word)
    /\ nops < OpsBound
    /\ test_word' = WordFrom(T)
    /\ last' = [op |-> "new"]
    /\ nops' = nops + 1
    /\ UNCHANGED finished_words
    /\ ApiFrame

NextStats ==
    \/ \E c \in StatInputs(test_word), dt \in Durations : ApiAddChar(c, dt)
    \/ \E dt \in Durations : ApiFinalise(" ", dt)
    \/ \E T \in StatTargets : ApiNewWord(T)

SpecStats == InitStats /\ [][NextStats]_vars

-----------------------------------------------------------------------------
(* Properties of the Word API, checked under SpecWord. *)

IsPrefix(s, t) == Len(s) <= Len(t) /\ SubSeq(t, 1, Len(s)) = s

Max(a, b) == IF a >= b THEN a ELSE b

\* the metric log of the harness's word, wherever it now lives
WordLog ==
    IF IsWord(test_word) THEN test_word.metrics
    ELSE finished_words[Len(finished_words)].metrics

\* C1: add_char(c, dt) on a typed buffer of i characters appends exactly
\* Match{c, dt} when i < len(T) and c = T[i], Typo{c, T[i], dt} when i < len(T)
\* and c # T[i], and no metric when i >= len(T); c is appended to the buffer.
C1_AddCharClassifies ==
    last.op = "add_char" =>
        LET w == last.pre
            T == w.value
            i == Len(w.typed)
            c == last.c
        IN  /\ test_word.value = T
            /\ test_word.typed = Append(w.typed, c)
            /\ test_word.metrics =
                  IF i < Len(T)
                    THEN IF c = T[i + 1]
                           THEN Append(w.metrics, Match(c, last.dt))
                           ELSE Append(w.metrics, Typo(c, T[i + 1], last.dt))
                    ELSE w.metrics

RECURSIVE Replay(_, _)
\* a fresh Word for T after add_char of T's first k characters, in order
Replay(T, k) ==
    IF k = 0 THEN WordFrom(T) ELSE add_char(Replay(T, k - 1), T[k], 0)

\* C2: replaying T's characters through add_char makes is_complete() true
\* exactly when all of T has been typed, and in every state is_complete()
\* holds iff the typed buffer equals T character for character.
C2_CompleteIffEqual ==
    IsWord(test_word) =>
        LET T == test_word.value
            t == test_word.typed
        IN  /\ \A k \in 0..Len(T) : is_complete(Replay(T, k)) <=> (k = Len(T))
            /\ is_complete(test_word) <=>
                  (Len(t) = Len(T) /\ \A i \in 1..Len(T) : t[i] = T[i])

C2_Witness ==
    /\ IsWord(test_word)
    /\ is_complete(test_word)
    /\ len(test_word) >= 2
    /\ nops = len(test_word)

\* C3: remove_char removes exactly the last character of a non-empty typed
\* buffer, does nothing to an empty one, and leaves target and log unchanged.
C3_RemoveCharFrame ==
    last.op = "remove_char" =>
        LET w == last.pre
            n == Len(w.typed)
        IN  /\ test_word.value = w.value
            /\ test_word.metrics = w.metrics
            /\ Len(test_word.typed) = Max(n - 1, 0)
            /\ \A i \in 1..Len(test_word.typed) : test_word.typed[i] = w.typed[i]

C3_Witness ==
    /\ last.op = "remove_char"
    /\ last.pre.metrics # <<>>
    /\ Len(last.pre.typed) >= 2
    /\ last.pre.typed[Len(last.pre.typed)] = NonAscii

\* C4: the metric log of a word is append-only: each step leaves it as it
\* was or appends one entry, which is the entry of the keystroke just made.
C4_LogAppendOnly ==
    [][ /\ IsPrefix(WordLog, WordLog')
        /\ WordLog' # WordLog =>
              /\ Len(WordLog') = Len(WordLog) + 1
              /\ last'.op \in {"add_char", "finalise"}
              /\ WordLog'[Len(WordLog')].value = last'.c
              /\ WordLog'[Len(WordLog')].duration = last'.dt ]_vars

\* a typo that was backspaced and retyped correctly is still in the log
C4_Witness ==
    /\ IsWord(test_word)
    /\ is_complete(test_word)
    /\ last.op = "add_char"
    /\ \E i \in 1..Len(test_word.metrics) : test_word.metrics[i].kind = "Typo"

\* C5: finalise(c, dt) yields a FinishedWord with the same target whose log
\* is the word's log followed by exactly Delimiter{c, dt}; it has no typed buffer.
C5_FinaliseAppendsDelimiter ==
    last.op = "finalise" =>
        LET fw == finished_words[Len(finished_words)]
        IN  /\ DOMAIN fw = {"value", "metrics"}
            /\ fw.value = last.pre.value
            /\ fw.metrics = last.pre.metrics \o <<Delimiter(last.c, last.dt)>>

C5_Witness ==
    /\ last.op = "finalise"
    /\ last.pre.metrics # <<>>
    /\ last.pre.typed # <<>>
    /\ last.dt > 0

\* C6: overflow() is max(typed_len - target_len, 0) counted in characters,
\* and an add_char made at typed_len >= target_len lengthens the typed buffer
\* (and the overflow) by one and leaves the metric log unchanged.
C6_OverflowUnscored ==
    /\ IsWord(test_word) =>
          overflow(test_word) =
              Max(Len(test_word.typed) - Len(test_word.value), 0)
    /\ (last.op = "add_char" /\ Len(last.pre.typed) >= Len(last.pre.value)) =>
          /\ test_word.metrics = last.pre.metrics
          /\ Len(test_word.typed) = Len(last.pre.typed) + 1
          /\ overflow(test_word) = overflow(last.pre) + 1

C6_Witness ==
    /\ last.op = "add_char"
    /\ Len(last.pre.typed) >= Len(last.pre.value)
    /\ last.pre.metrics # <<>>
    /\ overflow(test_word) >= 1

-----------------------------------------------------------------------------
(* src/src/main.rs: map_qwerty_to_dvorak.  A KeyCode is a record with a    *)
(* kind; KeyCode::Char carries its character in c.                         *)

KeyChar(c) == [kind |-> "Char", c |-> c]

KeyEsc == [kind |-> "Esc"]

KeyBackspace == [kind |-> "Backspace"]

KeyEnter == [kind |-> "Enter"]

\* the arms of the match, in order: <<source character, mapped character>>
QwertyToDvorak ==
    <<
       <<"-", "[">>, <<"_", "{">>, <<"=", "]">>, <<"+", "}">>,
       <<"q", "'">>, <<"Q", "\"">>, <<"w", ",">>, <<"W", "<">>,
       <<"e", ".">>, <<"E", ">">>, <<"r", "p">>, <<"R", "P">>,
       <<"t", "y">>, <<"T", "Y">>, <<"y", "f">>, <<"Y", "F">>,
       <<"u", "g">>, <<"U", "G">>, <<"i", "c">>, <<"I", "C">>,
       <<"o", "r">>, <<"O", "R">>, <<"p", "l">>, <<"P", "L">>,
       <<"[", "/">>, <<"{", "?">>, <<"]", "=">>, <<"}", "+">>,
       <<"s", "o">>, <<"S", "O">>, <<"d", "e">>, <<"D", "E">>,
       <<"f", "u">>, <<"F", "U">>, <<"g", "i">>, <<"G", "I">>,
       <<"h", "d">>, <<"H", "D">>, <<"j", "h">>, <<"J", "H">>,
       <<"k", "t">>, <<"K", "T">>, <<"l", "n">>, <<"L", "N">>,
       <<";", "s">>, <<":", "S">>, <<"'", "-">>, <<"\"", "_">>,
       <<"z", ";">>, <<"Z", ":">>, <<"x", "q">>, <<"X", "Q">>,
       <<"c", "j">>, <<"C", "J">>, <<"v", "k">>, <<"V", "K">>,
       <<"b", "x">>, <<"B", "X">>, <<"n", "b">>, <<"N", "B">>,
       <<",", "w">>, <<"<", "W">>, <<".", "v">>, <<">", "V">>,
       <<"/", "z">>, <<"?", "Z">>
    >>

\* mutant: the arm of ';' gives 'o', the character the arm of 's' gives
map_char_slip(c) ==
    IF c = ";" THEN "o"
    ELSE IF \E i \in DOMAIN QwertyToDvorak : QwertyToDvorak[i][1] = c
      THEN QwertyToDvorak[CHOOSE i \in DOMAIN QwertyToDvorak : QwertyToDvorak[i][1] = c][2]
      ELSE c

\* mutant: a character without an arm is rejected
map_char_closed(c) ==
    IF \E i \in DOMAIN QwertyToDvorak : QwertyToDvorak[i][1] = c
      THEN QwertyToDvorak[CHOOSE i \in DOMAIN QwertyToDvorak : QwertyToDvorak[i][1] = c][2]
      ELSE NoChar

\* the match on c, with its `_ => c` arm
map_char(c) ==
    IF \E i \in DOMAIN QwertyToDvorak : QwertyToDvorak[i][1] = c
      THEN QwertyToDvorak[CHOOSE i \in DOMAIN QwertyToDvorak : QwertyToDvorak[i][1] = c][2]
      ELSE c

map_qwerty_to_dvorak(code) ==
    IF code.kind = "Char" THEN KeyChar(map_char(code.c)) ELSE code

(* src/src/keyboard.rs: the arms of key_code_to_key, in order: the         *)
(* character a key prints unshifted, the one it prints shifted, the Key.   *)
\* the character U+0060, which the arm of Key::BackTick names
Grave == "U+0060"

KeyArms ==
    <<
       <<Grave, "~", "BackTick">>, <<"1", "!", "One">>, <<"2", "@", "Two">>,
       <<"3", "#", "Three">>, <<"4", "$", "Four">>, <<"5", "%", "Five">>,
       <<"6", "^", "Six">>, <<"7", "&", "Seven">>, <<"8", "*", "Eight">>,
       <<"9", "(", "Nine">>, <<"0", ")", "Zero">>,
       <<"[", "{", "OpenBracket">>, <<"]", "}", "CloseBracket">>,
       <<"'", "\"", "Quote">>, <<",", "<", "Comma">>, <<".", ">", "Period">>,
       <<"p", "P", "P">>, <<"y", "Y", "Y">>, <<"f", "F", "F">>,
       <<"g", "G", "G">>, <<"c", "C", "C">>, <<"r", "R", "R">>,
       <<"l", "L", "L">>, <<"/", "?", "ForwardSlash">>, <<"=", "+", "Equal">>,
       <<"\\", "|", "BackSlash">>,
       <<"a", "A", "A">>, <<"o", "O", "O">>, <<"e", "E", "E">>,
       <<"u", "U", "U">>, <<"i", "I", "I">>, <<"d", "D", "D">>,
       <<"h", "H", "H">>, <<"t", "T", "T">>, <<"n", "N", "N">>,
       <<"s", "S", "S">>, <<"-", "_", "Dash">>, <<";", ":", "Semicolon">>,
       <<"q", "Q", "Q">>, <<"j", "J", "J">>, <<"k", "K", "K">>,
       <<"x", "X", "X">>, <<"b", "B", "B">>, <<"m", "M", "M">>,
       <<"w", "W", "W">>, <<"v", "V", "V">>, <<"z", "Z", "Z">>
    >>

(* A harness of map_qwerty_to_dvorak: key codes are remapped one after     *)
(* the other; `last` keeps the lookup before the one in hand.              *)

KeyTab == [kind |-> "Tab"]

KeyLeft == [kind |-> "Left"]

KeyF(n) == [kind |-> "F", n |-> n]

\* the characters a keyboard prints, the space and a character outside ASCII
KeyChars ==
    {KeyArms[i][1] : i \in DOMAIN KeyArms} \cup {KeyArms[i][2] : i \in DOMAIN KeyArms}
      \cup {" ", NonAscii}

KeyCodes ==
    {KeyChar(c) : c \in KeyChars}
      \cup {KeyEsc, KeyBackspace, KeyEnter, KeyTab, KeyLeft, KeyF(1)}

InitKeymap ==
    /\ pc = "keymap"
    /\ test_word = MovedWord
    /\ finished_words = <<>>
    /\ nops = 0
    /\ last = NoOp
    /\ Idle
    /\ SamplerIdle

Remap(k) ==
    /\ pc = "keymap"
    /\ event_code' = k
    /\ mapped' = map_qwerty_to_dvorak(k)
    /\ last' = [op |-> "remap", event_code |-> event_code, mapped |-> mapped]
    /\ UNCHANGED <<pc, test_word, test_words, finished_words, start_char, now, nops,
                   mis_cur, mis_fin, t_key, t_char>>
    /\ UNCHANGED samplerVars
    /\ UNCHANGED mainVars
    /\ UNCHANGED pressed

NextKeymap == \E k \in KeyCodes : Remap(k)

SpecKeymap == InitKeymap /\ [][NextKeymap]_vars

(* src/src/keyboard.rs: key_code_to_key and the Display text of a Key.     *)

\* the outcome of the `_ => unreachable!()` arm: a panic
Unreachable == [some |-> FALSE, panic |-> "unreachable"]

key_code_to_key(code) ==
    IF code.kind = "Char"
      THEN IF \E i \in DOMAIN KeyArms : code.c \in {KeyArms[i][1], KeyArms[i][2]}
             THEN Some(KeyArms[CHOOSE i \in DOMAIN KeyArms :
                                  code.c \in {KeyArms[i][1], KeyArms[i][2]}][3])
             ELSE Unreachable
      ELSE None

\* the arms of the match of Display for Key, in order: <<Key, text>>
KeyGlyphs ==
    <<
       <<"BackTick", <<Grave, "~">> >>, <<"One", <<"1", "!">> >>,
       <<"Two", <<"2", "@">> >>, <<"Three", <<"3", "#">> >>,
       <<"Four", <<"4", "$">> >>, <<"Five", <<"5", "%">> >>,
       <<"Six", <<"6", "^">> >>, <<"Seven", <<"7", "&">> >>,
       <<"Eight", <<"8", "*">> >>, <<"Nine", <<"9", "(">> >>,
       <<"Zero", <<"0", ")">> >>,
       <<"OpenBracket", <<"[", "{">> >>, <<"CloseBracket", <<"]", "}">> >>,
       <<"Quote", <<"'", "\"">> >>, <<"Comma", <<",", "<">> >>,
       <<"Period", <<".", ">">> >>,
       <<"P", <<"p">> >>, <<"Y", <<"y">> >>, <<"F", <<"f">> >>,
       <<"G", <<"g">> >>, <<"C", <<"c">> >>, <<"R", <<"r">> >>,
       <<"L", <<"l">> >>,
       <<"ForwardSlash", <<"\\", "|">> >>, <<"Equal", <<"=", "+">> >>,
       <<"BackSlash", <<"/", "?">> >>,
       <<"A", <<"a">> >>, <<"O", <<"o">> >>, <<"E", <<"e">> >>,
       <<"U", <<"u">> >>, <<"I", <<"i">> >>, <<"D", <<"d">> >>,
       <<"H", <<"h">> >>, <<"T", <<"t">> >>, <<"N", <<"n">> >>,
       <<"S", <<"s">> >>,
       <<"Dash", <<"-", "_">> >>, <<"Semicolon", <<";", ":">> >>,
       <<"Q", <<"q">> >>, <<"J", <<"j">> >>, <<"K", <<"k">> >>,
       <<"X", <<"x">> >>, <<"B", <<"b">> >>, <<"M", <<"m">> >>,
       <<"W", <<"w">> >>, <<"V", <<"v">> >>, <<"Z", <<"z">> >>
    >>

GlyphWidth == 4

\* n spaces
Spaces(n) == [i \in 1..n |-> " "]

\* format!("{:^w}", text): centred, the odd space of padding on the right
fmt_center(text, w) ==
    LET pad == saturating_sub(w, chars_count(text))
    IN  Spaces(pad \div 2) \o text \o Spaces(pad - (pad \div 2))

\* key.to_string()
Display(key) ==
    fmt_center(KeyGlyphs[CHOOSE i \in DOMAIN KeyGlyphs : KeyGlyphs[i][1] = key][2],
               GlyphWidth)

(* A harness of the display keyboard: the Key of a key code is looked up   *)
(* and handed to Keyboard::key_pressed; `last` keeps the lookup before.    *)

InitKeyboard ==
    /\ pc = "keyboard"
    /\ test_word = MovedWord
    /\ finished_words = <<>>
    /\ nops = 0
    /\ last = NoOp
    /\ Idle
    /\ SamplerIdle

KeyPress(k) ==
    /\ pc = "keyboard"
    /\ event_code' = k
    /\ last' = [op |-> "key_pressed", event_code |-> event_code, pressed |-> pressed]
    /\ IF key_code_to_key(k) = Unreachable
         THEN pc' = "panicked" /\ pressed' = pressed
         ELSE pc' = pc /\ pressed' = key_code_to_key(k)
    /\ UNCHANGED <<test_word, test_words, finished_words, start_char, now, nops,
                   mis_cur, mis_fin, t_key, t_char>>
    /\ UNCHANGED samplerVars
    /\ UNCHANGED mainVars
    /\ UNCHANGED mapped

NextKeyboard == \E k \in KeyCodes : KeyPress(k)

SpecKeyboard == InitKeyboard /\ [][NextKeyboard]_vars

-----------------------------------------------------------------------------
(* src/src/typingtest.rs: typing_test.  One action per event the loop      *)
(* reads; `budget` caps the number of Word operations of a run.  The       *)
(* display string `typed` and the drawing of the frame are left out.       *)

\* SystemTime::elapsed: Err when the clock is behind the SystemTime
elapsed_is_err(t) == now < t

elapsed(t) == now - t

\* mutant: the queue is served from its back
pop_back(q) == [word |-> q[Len(q)], rest |-> SubSeq(q, 1, Len(q) - 1)]

\* VecDeque::pop_front on a queue that is not empty: Some(word), and the rest
pop_front(q) == [word |-> Head(q), rest |-> Tail(q)]

\* the function has returned or unwound: its locals are dropped
DropLocals ==
    /\ test_word' = MovedWord
    /\ test_words' = <<>>

\* a panic, or an error passed on by `?`, ends main as well when main runs
Unwinds(how) == mpc' = IF mpc = "none" THEN mpc ELSE how

\* history: is add_char(c) on w an in-range keystroke that mismatches the target
IsMismatch(w, c) == typed_len(w) < len(w) /\ c # w.value[typed_len(w) + 1]

\* mutant: an empty queue gives an empty TestResults
TypingStart_returns_empty ==
    /\ pc = "start"
    /\ IF test_words = <<>>
         THEN /\ pc' = "returned"
              /\ mpc' = mpc
              /\ DropLocals
              /\ UNCHANGED <<finished_words, start_char, t_key, t_char>>
         ELSE /\ pc' = "loop"
              /\ mpc' = mpc
              /\ test_word' = WordFrom(pop_front(test_words).word)
              /\ test_words' = pop_front(test_words).rest
              /\ finished_words' = <<>>
              /\ start_char' = now
              /\ t_key' = now
              /\ t_char' = now
    /\ last' = [op |-> "start"]
    /\ UNCHANGED <<now, nops, mis_cur, mis_fin>>
    /\ UNCHANGED samplerVars
    /\ UNCHANGED <<lesson, report>>
    /\ UNCHANGED keyVars

TypingStart ==
    /\ pc = "start"
    /\ IF test_words = <<>>
         THEN /\ pc' = "panicked"
              /\ Unwinds("panicked")
              /\ DropLocals
              /\ UNCHANGED <<finished_words, start_char, t_key, t_char>>
         ELSE /\ pc' = "loop"
              /\ mpc' = mpc
              /\ test_word' = WordFrom(pop_front(test_words).word)
              /\ test_words' = pop_front(test_words).rest
              /\ finished_words' = <<>>
              /\ start_char' = now
              /\ t_key' = now
              /\ t_char' = now
    /\ last' = [op |-> "start"]
    /\ UNCHANGED <<now, nops, mis_cur, mis_fin>>
    /\ UNCHANGED samplerVars
    /\ UNCHANGED <<lesson, report>>
    /\ UNCHANGED keyVars

\* mutant: a failed read is passed over and the loop reads again
ReadError_retried ==
    /\ pc = "loop"
    /\ last' = [op |-> "read_error"]
    /\ UNCHANGED <<pc, test_word, test_words, finished_words, start_char, now, nops,
                   mis_cur, mis_fin, t_key, t_char>>
    /\ UNCHANGED samplerVars
    /\ UNCHANGED mainVars
    /\ UNCHANGED keyVars

\* read()? fails
ReadError ==
    /\ pc = "loop"
    /\ pc' = "failed"
    /\ Unwinds("failed")
    /\ DropLocals
    /\ finished_words' = <<>>
    /\ last' = [op |-> "read_error"]
    /\ UNCHANGED <<start_char, now, nops, mis_cur, mis_fin, t_key, t_char>>
    /\ UNCHANGED samplerVars
    /\ UNCHANGED <<lesson, report>>
    /\ UNCHANGED keyVars

\* read() yields an event that is not a key event
EventOther ==
    /\ pc = "loop"
    /\ UNCHANGED vars

\* mutant: Esc keeps the word in progress as a finished word
EventEsc_keeps_word ==
    /\ pc = "loop"
    /\ pc' = "returned"
    /\ DropLocals
    /\ finished_words' = Append(finished_words, FinishedFrom(test_word))
    /\ last' = [op |-> "esc", pre |-> test_word, fin |-> finished_words,
                queue |-> test_words]
    /\ t_key' = now
    /\ UNCHANGED <<start_char, now, nops, mis_cur, mis_fin, t_char>>
    /\ UNCHANGED samplerVars
    /\ UNCHANGED mainVars
    /\ UNCHANGED keyVars

EventEsc ==
    /\ pc = "loop"
    /\ pc' = "returned"
    /\ DropLocals
    /\ last' = [op |-> "esc", pre |-> test_word, fin |-> finished_words,
                queue |-> test_words]
    /\ t_key' = now
    /\ UNCHANGED <<finished_words, start_char, now, nops, mis_cur, mis_fin, t_char>>
    /\ UNCHANGED samplerVars
    /\ UNCHANGED mainVars
    /\ UNCHANGED keyVars

\* mutant: Backspace restarts the measurement of the next duration
EventBackspace_resets(budget) ==
    /\ pc = "loop"
    /\ nops < budget
    /\ test_word' = remove_char(test_word)
    /\ start_char' = now
    /\ last' = [op |-> "remove_char", pre |-> test_word]
    /\ nops' = nops + 1
    /\ t_key' = now
    /\ UNCHANGED <<pc, test_words, finished_words, now, mis_cur, mis_fin, t_char>>
    /\ UNCHANGED samplerVars
    /\ UNCHANGED mainVars
    /\ UNCHANGED keyVars

EventBackspace(budget) ==
    /\ pc = "loop"
    /\ nops < budget
    /\ map_qwerty_to_dvorak(KeyBackspace) = KeyBackspace
    /\ test_word' = remove_char(test_word)
    /\ last' = [op |-> "remove_char", pre |-> test_word]
    /\ nops' = nops + 1
    /\ t_key' = now
    /\ UNCHANGED <<pc, test_words, finished_words, start_char, now, mis_cur, mis_fin,
                   t_char>>
    /\ UNCHANGED samplerVars
    /\ UNCHANGED mainVars
    /\ UNCHANGED keyVars

EventChar(raw, budget) ==
    LET c == map_qwerty_to_dvorak(KeyChar(raw)).c
    IN  /\ pc = "loop"
        /\ nops < budget
        /\ nops' = nops + 1
        /\ t_key' = now
        /\ t_char' = now
        /\ IF elapsed_is_err(start_char)
             THEN /\ pc' = "failed"
                  /\ Unwinds("failed")
                  /\ DropLocals
                  /\ finished_words' = <<>>
                  /\ last' = [op |-> "clock_error"]
                  /\ UNCHANGED <<start_char, mis_cur, mis_fin>>
             ELSE IF c = " " /\ is_complete(test_word)
               THEN /\ finished_words' =
                          Append(finished_words,
                                 finalise(test_word, c, elapsed(start_char)))
                    /\ last' = [op |-> "finalise", c |-> c,
                                dt |-> elapsed(start_char), pre |-> test_word,
                                since_key |-> now - t_key,
                                since_char |-> now - t_char]
                    /\ mis_fin' = mis_fin + mis_cur
                    /\ mis_cur' = 0
                    /\ mpc' = mpc
                    /\ IF test_words # <<>>
                         THEN /\ start_char' = now
                              /\ test_word' = WordFrom(pop_front(test_words).word)
                              /\ test_words' = pop_front(test_words).rest
                              /\ pc' = pc
                         ELSE /\ pc' = "returned"
                              /\ DropLocals
                              /\ UNCHANGED start_char
               ELSE /\ test_word' = add_char(test_word, c, elapsed(start_char))
                    /\ start_char' = now
                    /\ last' = [op |-> "add_char", c |-> c,
                                dt |-> elapsed(start_char), pre |-> test_word,
                                since_key |-> now - t_key,
                                since_char |-> now - t_char]
                    /\ mis_cur' = mis_cur + (IF IsMismatch(test_word, c) THEN 1 ELSE 0)
                    /\ mpc' = mpc
                    /\ UNCHANGED <<pc, test_words, finished_words, mis_fin>>
        /\ UNCHANGED now
        /\ UNCHANGED samplerVars
        /\ UNCHANGED <<lesson, report>>
        /\ UNCHANGED keyVars

\* any other key: the `_ => {}` arm
EventKeyOther ==
    /\ pc = "loop"
    /\ map_qwerty_to_dvorak(KeyEnter).kind \notin {"Backspace", "Char"}
    /\ t_key' = now
    /\ UNCHANGED <<pc, test_word, test_words, finished_words, start_char, now, nops,
                   last, mis_cur, mis_fin, t_char>>
    /\ UNCHANGED samplerVars
    /\ UNCHANGED mainVars
    /\ UNCHANGED keyVars

\* the system clock advances
Tick ==
    /\ pc = "loop"
    /\ now < MaxTime
    /\ now' = now + 1
    /\ UNCHANGED <<pc, test_word, test_words, finished_words, start_char, nops,
                   last, mis_cur, mis_fin, t_key, t_char>>
    /\ UNCHANGED samplerVars
    /\ UNCHANGED mainVars
    /\ UNCHANGED keyVars

\* the system clock is set back
ClockBack ==
    /\ pc = "loop"
    /\ now > 0
    /\ now' = now - 1
    /\ UNCHANGED <<pc, test_word, test_words, finished_words, start_char, nops,
                   last, mis_cur, mis_fin, t_key, t_char>>
    /\ UNCHANGED samplerVars
    /\ UNCHANGED mainVars
    /\ UNCHANGED keyVars

\* the words of a lesson's queue, and the raw (QWERTY) characters typed
TypingWords == {<<"a">>, <<"a", "o">>}

RawChars == {"a", "s", NonAscii, " "}

InitTypingWith(queues) ==
    /\ pc = "start"
    /\ test_words \in queues
    /\ test_word = MovedWord
    /\ finished_words = <<>>
    /\ start_char = 0
    /\ now = 0
    /\ nops = 0
    /\ last = NoOp
    /\ mis_cur = 0
    /\ mis_fin = 0
    /\ t_key = 0
    /\ t_char = 0
    /\ word_list = <<>>
    /\ allowed = {}
    /\ amount = Len(test_words)
    /\ words = test_words
    /\ word = NoWord
    /\ MainIdle
    /\ KeyIdle

InitTyping == InitTypingWith(SeqsUpTo(TypingWords, MaxQueue))

NextTyping ==
    \/ TypingStart
    \/ ReadError
    \/ EventOther
    \/ EventEsc
    \/ EventBackspace(MaxKeys)
    \/ \E raw \in RawChars : EventChar(raw, MaxKeys)
    \/ EventKeyOther
    \/ Tick
    \/ ClockBack

SpecTyping == InitTyping /\ [][NextTyping]_vars

(* The same loop with a queue of one word and a clock that stands still,   *)
(* for runs long enough to mistype, erase, retype and confirm a word.      *)

InitTypingLong == InitTypingWith({<<w>> : w \in TypingWords})

NextTypingLong ==
    \/ TypingStart
    \/ EventEsc
    \/ EventBackspace(MaxKeysLong)
    \/ \E raw \in RawChars : EventChar(raw, MaxKeysLong)

SpecTypingLong == InitTypingLong /\ [][NextTypingLong]_vars

(* The same loop with a queue of several words and a clock that stands     *)
(* still, for runs long enough to work through the queue.                  *)

NextTypingQueue ==
    \/ TypingStart
    \/ EventOther
    \/ EventEsc
    \/ EventBackspace(MaxQueueKeys)
    \/ \E raw \in RawChars : EventChar(raw, MaxQueueKeys)
    \/ EventKeyOther

SpecTypingQueue == InitTyping /\ [][NextTypingQueue]_vars

-----------------------------------------------------------------------------
(* src/src/main.rs: get_test_words.  One action per turn of the 'search    *)
(* loop: a word is drawn, and pushed when its characters are all allowed.  *)

\* word.chars().collect::<HashSet<char>>()
chars_of(w) == {w[i] : i \in DOMAIN w}

\* mutant: a word is taken when it has some allowed character
is_eligible_some(w, allow) == chars_of(w) \cap allow # {}

\* chars.is_subset(allowed)
is_eligible(w, allow) == chars_of(w) \subseteq allow

Ooze == <<"o", "o", "z", "e">>

Fox == <<"f", "o", "x">>

Ox == <<"o", "x">>

Corpora ==
    { <<>>,
      <<Ooze, Fox>>,
      <<Fox, Ox>>,
      << <<"a", "a">>, <<"o", "o">>, <<"z", "o", "o">> >> }

AllowedSets == { {"a", "o", "e", "u"}, {"a", "o"}, {"a", "o", "e", "u", "z"} }

InitSampler ==
    /\ pc = "sample"
    /\ word_list \in Corpora
    /\ allowed \in AllowedSets
    /\ amount \in 0..MaxAmount
    /\ words = <<>>
    /\ word = NoWord
    /\ test_word = MovedWord
    /\ finished_words = <<>>
    /\ nops = 0
    /\ last = NoOp
    /\ Idle

\* word_list.choose(&mut rng).unwrap(), then the subset test
SamplerDraw ==
    /\ pc = "sample"
    /\ Len(words) < amount
    /\ IF word_list = <<>>
         THEN /\ pc' = "panicked"
              /\ Unwinds("panicked")
              /\ UNCHANGED <<words, word>>
         ELSE \E i \in DOMAIN word_list :
                /\ word' = word_list[i]
                /\ words' = IF is_eligible(word_list[i], allowed)
                              THEN Append(words, word_list[i])
                              ELSE words
                /\ pc' = pc
                /\ mpc' = mpc
    /\ UNCHANGED <<word_list, allowed, amount>>
    /\ UNCHANGED wordVars
    /\ UNCHANGED <<lesson, report>>
    /\ UNCHANGED keyVars

\* the for loop has run `amount` times: words is returned
SamplerReturn ==
    /\ pc = "sample"
    /\ Len(words) = amount
    /\ pc' = "returned"
    /\ UNCHANGED samplerVars
    /\ UNCHANGED wordVars
    /\ UNCHANGED mainVars
    /\ UNCHANGED keyVars

NextSampler ==
    \/ SamplerDraw
    \/ SamplerReturn

SpecSampler == InitSampler /\ [][NextSampler]_vars

\* a draw that the subset test accepts
SamplerAccept == SamplerDraw /\ words' # words

(* The loops of get_test_words keep running, and choose() gives every entry *)
(* of the corpus a positive probability: a draw that can be accepted again  *)
(* and again is accepted in the end.                                        *)
SpecSamplerFair ==
    /\ InitSampler
    /\ [][NextSampler]_vars
    /\ WF_vars(SamplerDraw)
    /\ WF_vars(SamplerReturn)
    /\ SF_vars(SamplerAccept)

-----------------------------------------------------------------------------
(* src/src/main.rs: main.  One action per step of the 'lessons loop: the   *)
(* alphabet is taken, the words are sampled (SamplerDraw, SamplerReturn),  *)
(* typing_test runs (TypingStart and the events), the figures are printed, *)
(* and the 'hold loop reads keys.  LessonAmount stands for the 100 words   *)
(* main asks for; the corpus stands for assets/words_alpha.txt.  Failures  *)
(* of the output (execute!, queue!, flush) are left out.                   *)

\* mutant: lesson 4 repeats the alphabet of lesson 3
LessonAlphabets_repeated ==
    <<
       <<"a", "o", "e", "u", "h", "t", "n", "s">>,
       <<"a", "o", "e", "u", "i", "d", "h", "t", "n", "s">>,
       <<"a", "o", "e", "u", "i", "d", "h", "t", "n", "s",
         "c", "f", "k", "l", "m", "p", "r", "v">>,
       <<"a", "o", "e", "u", "i", "d", "h", "t", "n", "s",
         "c", "f", "k", "l", "m", "p", "r", "v">>,
       <<"a", "b", "c", "d", "e", "f", "g", "h", "i", "j", "k", "l", "m",
         "n", "o", "p", "q", "r", "s", "t", "u", "v", "w", "x", "y", "z">>
    >>

\* the array the 'lessons loop runs over
LessonAlphabets ==
    <<
       <<"a", "o", "e", "u", "h", "t", "n", "s">>,
       <<"a", "o", "e", "u", "i", "d", "h", "t", "n", "s">>,
       <<"a", "o", "e", "u", "i", "d", "h", "t", "n", "s",
         "c", "f", "k", "l", "m", "p", "r", "v">>,
       <<"a", "o", "e", "u", "i", "d", "h", "t", "n", "s",
         "b", "g", "j", "q", "w", "x", "y", "z">>,
       <<"a", "b", "c", "d", "e", "f", "g", "h", "i", "j", "k", "l", "m",
         "n", "o", "p", "q", "r", "s", "t", "u", "v", "w", "x", "y", "z">>
    >>

NumLessons == Len(LessonAlphabets)

MainCorpus == << <<"a">>, Fox >>

HoldKeys == {KeyEnter, KeyEsc, KeyBackspace, KeyChar("a"), KeyChar(" ")}

InitMain ==
    /\ pc = "main"
    /\ lesson = 1
    /\ mpc = "lesson"
    /\ report = NoReport
    /\ word_list = MainCorpus
    /\ allowed = {}
    /\ amount = 0
    /\ words = <<>>
    /\ word = NoWord
    /\ test_word = MovedWord
    /\ test_words = <<>>
    /\ finished_words = <<>>
    /\ start_char = 0
    /\ now = 0
    /\ nops = 0
    /\ last = NoOp
    /\ mis_cur = 0
    /\ mis_fin = 0
    /\ t_key = 0
    /\ t_char = 0
    /\ KeyIdle

\* let allowed = ...; get_test_words(&word_list, &allowed, 100) is entered
LessonBegin ==
    /\ mpc = "lesson"
    /\ allowed' = chars_of(LessonAlphabets[lesson])
    /\ amount' = LessonAmount
    /\ words' = <<>>
    /\ word' = NoWord
    /\ pc' = "sample"
    /\ mpc' = "sampling"
    /\ last' = [op |-> "lesson"]
    /\ UNCHANGED <<test_word, test_words, finished_words, start_char, now, nops,
                   mis_cur, mis_fin, t_key, t_char>>
    /\ UNCHANGED <<word_list, lesson, report>>
    /\ UNCHANGED keyVars

\* get_test_words has returned: typing_test(test_words) is entered
LessonType ==
    /\ mpc = "sampling"
    /\ pc = "returned"
    /\ test_words' = words
    /\ pc' = "start"
    /\ mpc' = "typing"
    /\ mis_cur' = 0
    /\ mis_fin' = 0
    /\ UNCHANGED <<test_word, finished_words, start_char, now, nops, last,
                   t_key, t_char>>
    /\ UNCHANGED samplerVars
    /\ UNCHANGED <<lesson, report>>
    /\ UNCHANGED keyVars

\* typing_test has returned Ok: wpm_avg and typo_cnt are printed
LessonReport ==
    /\ mpc = "typing"
    /\ pc = "returned"
    /\ report' = [lesson |-> lesson,
                  wpm |-> wpm_avg(finished_words),
                  typos |-> typo_cnt(finished_words)]
    /\ mpc' = "hold"
    /\ pc' = "main"
    /\ UNCHANGED wordVars
    /\ UNCHANGED samplerVars
    /\ UNCHANGED lesson
    /\ UNCHANGED keyVars

\* mutant: any key ends the hold and goes on
HoldKey_any(k) ==
    /\ mpc = "hold"
    /\ last' = [op |-> "hold_key", code |-> k]
    /\ IF lesson < NumLessons
         THEN mpc' = "lesson" /\ lesson' = lesson + 1 /\ finished_words' = <<>>
         ELSE mpc' = "done" /\ lesson' = lesson /\ finished_words' = <<>>
    /\ UNCHANGED <<pc, test_word, test_words, start_char, now, nops,
                   mis_cur, mis_fin, t_key, t_char>>
    /\ UNCHANGED samplerVars
    /\ UNCHANGED report
    /\ UNCHANGED keyVars

\* the 'hold loop reads a key event
HoldKey(k) ==
    /\ mpc = "hold"
    /\ last' = [op |-> "hold_key", code |-> k]
    /\ IF k = KeyEsc
         THEN mpc' = "done" /\ lesson' = lesson /\ finished_words' = <<>>
         ELSE IF k = KeyEnter
           THEN IF lesson < NumLessons
                  THEN mpc' = "lesson" /\ lesson' = lesson + 1 /\ finished_words' = <<>>
                  ELSE mpc' = "done" /\ lesson' = lesson /\ finished_words' = <<>>
           ELSE UNCHANGED <<mpc, lesson, finished_words>>
    /\ UNCHANGED <<pc, test_word, test_words, start_char, now, nops,
                   mis_cur, mis_fin, t_key, t_char>>
    /\ UNCHANGED samplerVars
    /\ UNCHANGED report
    /\ UNCHANGED keyVars

\* poll() times out, or read() yields an event that is not a key event
HoldIdle ==
    /\ mpc = "hold"
    /\ UNCHANGED vars

\* poll()? or read()? fails in the 'hold loop
HoldError ==
    /\ mpc = "hold"
    /\ mpc' = "failed"
    /\ finished_words' = <<>>
    /\ last' = [op |-> "hold_error"]
    /\ UNCHANGED <<pc, test_word, test_words, start_char, now, nops,
                   mis_cur, mis_fin, t_key, t_char>>
    /\ UNCHANGED samplerVars
    /\ UNCHANGED <<lesson, report>>
    /\ UNCHANGED keyVars

NextMain ==
    \/ LessonBegin
    \/ SamplerDraw
    \/ SamplerReturn
    \/ LessonType
    \/ TypingStart
    \/ ReadError
    \/ EventOther
    \/ EventEsc
    \/ EventBackspace(MaxMainKeys)
    \/ \E raw \in RawChars : EventChar(raw, MaxMainKeys)
    \/ EventKeyOther
    \/ Tick
    \/ ClockBack
    \/ LessonReport
    \/ \E k \in HoldKeys : HoldKey(k)
    \/ HoldIdle
    \/ HoldError

SpecMain == InitMain /\ [][NextMain]_vars

(* typing_test as main calls it, or called on its own with any queue.      *)
SpecTypingCalls == (InitTyping \/ InitMain) /\ [][NextMain]_vars

-----------------------------------------------------------------------------
(* Properties of TestResults, checked under SpecStats. *)

RECURSIVE Flatten(_)
\* the metrics of all finished words, in one sequence
Flatten(tr) == IF tr = <<>> THEN <<>> ELSE tr[1].metrics \o Flatten(Tail(tr))

RECURSIVE SumOver(_, _)
\* the sum of f[i] over a finite set of indices
SumOver(f, I) ==
    IF I = {} THEN 0
    ELSE LET i == CHOOSE x \in I : TRUE IN f[i] + SumOver(f, I \ {i})

\* the summed durations of every Match, Typo and Delimiter of every word
AllDurations(tr) ==
    LET ms == Flatten(tr)
    IN  SumOver([i \in DOMAIN ms |-> ms[i].duration], DOMAIN ms)

\* the sum over the words of (characters of the target + 1)
AllChars(tr) == SumOver([i \in DOMAIN tr |-> Len(tr[i].value) + 1], DOMAIN tr)

Kinds(fw) == [i \in DOMAIN fw.metrics |-> fw.metrics[i].kind]

\* one finished word "test", 4 Match + 1 Delimiter, 5 seconds in all
IsTestIn5Secs(tr) ==
    /\ Len(tr) = 1
    /\ tr[1].value = <<"t", "e", "s", "t">>
    /\ Kinds(tr[1]) = <<"Match", "Match", "Match", "Match", "Delimiter">>
    /\ AllDurations(tr) = 5

\* C7: for a non-empty TestResults wpm_avg = (char_cnt/5) / (duration_secs/60)
\* with duration_secs the sum of all metrics' durations (as f64 division has
\* it, +infinity when that sum is zero); "test" typed in 5 seconds has
\* char_cnt = 5 and wpm_avg = 12.
C7_WpmFormula ==
    LET tr  == finished_words
        d   == AllDurations(tr)
        wpm == wpm_avg(tr)
    IN  /\ tr # <<>> =>
              /\ duration_secs(tr) = f64(d)
              /\ d > 0 => /\ f64_is_finite(wpm)
                          /\ wpm.num * CharsPerWord * d = wpm.den * AllChars(tr) * SecsPerMin
              /\ d = 0 => f64_is_inf(wpm)
        /\ IsTestIn5Secs(tr) =>
              /\ char_cnt(tr) = 5
              /\ f64_is_finite(wpm)
              /\ wpm.num = 12 * wpm.den

C7_Witness == IsTestIn5Secs(finished_words)

\* C8: word_cnt is the number of finished words and char_cnt the sum of
\* (target length + 1) over them; the empty TestResults has word_cnt = 0,
\* char_cnt = 0, typo_cnt = 0 and wpm_avg = 0.0.
C8_Counts ==
    LET tr == finished_words
    IN  /\ word_cnt(tr) = Cardinality(DOMAIN tr)
        /\ char_cnt(tr) = AllChars(tr)
        /\ tr = <<>> =>
              /\ word_cnt(tr) = 0
              /\ char_cnt(tr) = 0
              /\ typo_cnt(tr) = 0
              /\ wpm_avg(tr) = f64(0)

C8_Witness ==
    /\ Len(finished_words) = 2
    /\ Len(finished_words[1].value) # Len(finished_words[2].value)
    /\ char_cnt(finished_words) = 7

-----------------------------------------------------------------------------
(* Properties of a lesson's TestResults, checked under SpecTypingLong. *)

\* the number of Typo metrics in the logs of the finished words
AllTypos(tr) ==
    LET ms == Flatten(tr)
    IN  Cardinality({i \in DOMAIN ms : ms[i].kind = "Typo"})

\* C9: typo_cnt is the number of Typo metrics of the finished words, which
\* is the number of mismatching in-range add_char calls made on those words
\* (erased and retyped ones included); the cancelled word adds nothing.
C9_TypoCount ==
    /\ typo_cnt(finished_words) = AllTypos(finished_words)
    /\ typo_cnt(finished_words) = mis_fin

-----------------------------------------------------------------------------
(* Properties of get_test_words, checked under SpecSampler. *)

InCorpus(w) == \E i \in DOMAIN word_list : word_list[i] = w

\* C10: whenever get_test_words returns, it returns exactly `amount` words,
\* each a word of the corpus whose characters are all in `allowed`; a corpus
\* word with a character outside `allowed` is never in the queue.
C10_SampledWordsAllowed ==
    /\ pc = "returned" => Len(words) = amount
    /\ \A i \in DOMAIN words :
          /\ InCorpus(words[i])
          /\ \A j \in DOMAIN words[i] : words[i][j] \in allowed
    /\ (\E j \in DOMAIN Fox : Fox[j] \notin allowed) =>
          \A i \in DOMAIN words : words[i] # Fox

\* two words returned from {"ooze", "fox"} under {a, o, e, u, z}: both "ooze"
C10_Witness ==
    /\ pc = "returned"
    /\ word_list = <<Ooze, Fox>>
    /\ allowed = {"a", "o", "e", "u", "z"}
    /\ Len(words) = 2
    /\ words[1] = Ooze

-----------------------------------------------------------------------------
(* C11: a call of get_test_words for at least one word always comes to an  *)
(* end: it returns the queue or it fails (the claim: with                  *)
(* SamplingExhausted, after a bounded number of attempts; here any way of  *)
(* leaving the loops counts); it never draws for ever.                     *)
C11_SamplerTerminates ==
    (amount >= 1) => <>(pc # "sample")

-----------------------------------------------------------------------------
\* the characters map_qwerty_to_dvorak changes
Remapped == {c \in KeyChars : map_char(c) # c}

IsUnshifted(c) == \E i \in DOMAIN KeyArms : KeyArms[i][1] = c

IsShifted(c) == \E i \in DOMAIN KeyArms : KeyArms[i][2] = c

\* the character printed with shift by the key that prints c without
ShiftOf(c) == KeyArms[CHOOSE i \in DOMAIN KeyArms : KeyArms[i][1] = c][2]

\* the character printed without shift by the key that prints c with
UnshiftOf(c) == KeyArms[CHOOSE i \in DOMAIN KeyArms : KeyArms[i][2] = c][1]

(* C12: on character keys map_qwerty_to_dvorak is a bijection: two lookups *)
(* with the same result had the same source, and the characters it changes *)
(* are exactly their images; an unshifted character maps to an unshifted   *)
(* one, and a shifted character to the shifted character of the key its    *)
(* unshifted partner maps to.                                              *)
C12_RemapBijective ==
    (pc = "keymap" /\ event_code.kind = "Char")
      => /\ mapped.kind = "Char"
         /\ (last.op = "remap" /\ last.event_code.kind = "Char"
               /\ last.mapped = mapped)
              => last.event_code = event_code
         /\ (event_code.c \in Remapped) <=> (mapped.c \in Remapped)
         /\ Remapped = {map_char(c) : c \in Remapped}
         /\ IsUnshifted(event_code.c) => IsUnshifted(mapped.c)
         /\ IsShifted(event_code.c)
              => /\ IsShifted(mapped.c)
                 /\ mapped.c = ShiftOf(map_qwerty_to_dvorak(
                                          KeyChar(UnshiftOf(event_code.c))).c)

C12_Witness ==
    /\ pc = "keymap"
    /\ last.op = "remap"
    /\ last.event_code = KeyChar(";")
    /\ last.mapped = KeyChar("s")
    /\ event_code = KeyChar(":")
    /\ mapped = KeyChar("S")

(* C13: map_qwerty_to_dvorak returns a key code that is not a character    *)
(* as it is, and a character without an arm as it is; the space maps to    *)
(* the space.                                                              *)
C13_RemapPassThrough ==
    (pc = "keymap" /\ event_code # NoKey)
      => /\ event_code.kind # "Char" => mapped = event_code
         /\ (event_code.kind = "Char"
               /\ \A i \in DOMAIN QwertyToDvorak :
                     QwertyToDvorak[i][1] # event_code.c)
              => mapped = event_code
         /\ event_code = KeyChar(" ") => mapped = KeyChar(" ")

C13_Witness ==
    /\ pc = "keymap"
    /\ last.op = "remap"
    /\ last.event_code = KeyBackspace
    /\ last.mapped = KeyBackspace
    /\ event_code = KeyChar(" ")
    /\ mapped = KeyChar(" ")

-----------------------------------------------------------------------------
\* does a finished word's log end with its only Delimiter
EndsWithOnlyDelimiter(fw) ==
    /\ fw.metrics # <<>>
    /\ fw.metrics[Len(fw.metrics)].kind = "Delimiter"
    /\ \A j \in 1..(Len(fw.metrics) - 1) : fw.metrics[j].kind # "Delimiter"

(* C14: Esc ends typing_test at once: the function has returned, the words *)
(* still queued were never started, the TestResults are exactly the words  *)
(* finalised before the Esc (the word in progress and its metrics are not  *)
(* among them), and no later keystroke changes anything.                   *)
C14_EscEndsLesson ==
    /\ [](last.op = "esc"
            => /\ pc = "returned"
               /\ finished_words = last.fin
               /\ \A i \in DOMAIN finished_words :
                     EndsWithOnlyDelimiter(finished_words[i])
               /\ test_word = MovedWord
               /\ test_words = <<>>
               /\ Len(finished_words) + 1 + Len(last.queue) = Len(words))
    /\ [][last.op = "esc" => UNCHANGED <<pc, finished_words, test_word, test_words>>]_vars

C14_Witness ==
    /\ pc = "returned"
    /\ last.op = "esc"
    /\ last.fin # <<>>
    /\ last.pre.metrics # <<>>

(* C19: a word is finalised only when it is complete and only by the       *)
(* space: the typed buffer equalled the target, and the log of every       *)
(* finished word ends with a Delimiter, the only one in it.                *)
C19_FinaliseOnlyComplete ==
    /\ last.op = "finalise"
         => /\ last.c = " "
            /\ last.pre.typed = last.pre.value
            /\ finished_words # <<>>
            /\ finished_words[Len(finished_words)].value = last.pre.value
    /\ pc \in {"loop", "returned"}
         => \A i \in DOMAIN finished_words :
               EndsWithOnlyDelimiter(finished_words[i])

C19_Witness ==
    /\ last.op = "finalise"
    /\ finished_words # <<>>
    /\ Len(last.pre.metrics) > Len(last.pre.value)
    /\ \E j \in DOMAIN last.pre.metrics :
          last.pre.metrics[j].kind = "Typo" /\ last.pre.metrics[j].value = " "

FinishedTargets == [i \in DOMAIN finished_words |-> finished_words[i].value]

(* C20: the words are worked in queue order: the targets of the finished   *)
(* words, the word in hand and the words still queued are the sampled      *)
(* queue; a finalise starts the next queued word afresh; the finished      *)
(* words collected are never changed; and typing_test returns with as many *)
(* finished words as were sampled exactly when it was not ended by Esc.    *)
C20_QueueOrder ==
    /\ [](/\ pc = "loop"
            => FinishedTargets \o <<test_word.value>> \o test_words = words
          /\ pc = "returned"
            => /\ IsPrefix(FinishedTargets, words)
               /\ (word_cnt(finished_words) = amount) <=> (last.op # "esc")
               /\ (word_cnt(finished_words) = amount) <=> (last.op = "finalise"))
    /\ [][(pc = "loop" /\ pc' \in {"loop", "returned"})
            => /\ IsPrefix(finished_words, finished_words')
               /\ (finished_words' # finished_words /\ pc' = "loop")
                    => /\ test_word' = WordFrom(Head(test_words))
                       /\ test_words' = Tail(test_words)]_vars

C20_Witness ==
    /\ pc = "returned"
    /\ last.op = "finalise"
    /\ Len(words) = 2
    /\ words[1] # words[2]
    /\ word_cnt(finished_words) = amount

-----------------------------------------------------------------------------
-----------------------------------------------------------------------------
Alphabet(k) == chars_of(LessonAlphabets[k])

IsProperSubset(A, B) == A \subseteq B /\ A # B /\ Cardinality(A) < Cardinality(B)

InLesson == mpc \in {"sampling", "typing", "hold"}

(* C15: the lessons run in one fixed order, and the allowed characters of  *)
(* every lesson after the first properly contain (and outnumber) those of  *)
(* the lesson before it.                                                   *)
C15_AlphabetsGrow ==
    (InLesson /\ lesson >= 2)
      => /\ allowed = Alphabet(lesson)
         /\ IsProperSubset(Alphabet(lesson - 1), allowed)

(* C15, amended: the lessons run in one fixed order, one after the other;  *)
(* the allowed characters of lesson 2 properly contain those of lesson 1,  *)
(* those of lessons 3 and 4 both properly contain those of lesson 2, are   *)
(* equally many and do not contain one another, and those of lesson 5      *)
(* properly contain those of lessons 3 and 4.                              *)
C15_AlphabetsOrder ==
    /\ [](InLesson
            => /\ lesson \in 1..NumLessons
               /\ allowed = Alphabet(lesson)
               /\ lesson \in {2, 3, 5} => IsProperSubset(Alphabet(lesson - 1), allowed)
               /\ lesson = 4
                    => /\ IsProperSubset(Alphabet(2), allowed)
                       /\ Cardinality(Alphabet(3)) = Cardinality(allowed)
                       /\ ~(Alphabet(3) \subseteq allowed)
                       /\ ~(allowed \subseteq Alphabet(3))
               /\ lesson = 5 => IsProperSubset(Alphabet(3), allowed))
    /\ [][lesson' = lesson \/ (mpc = "hold" /\ lesson' = lesson + 1)]_vars

C15_Witness ==
    /\ mpc = "hold"
    /\ lesson = 4
    /\ report.lesson = 4

(* C16: once a lesson's figures are printed main waits in the 'hold loop.  *)
(* There Enter goes on to the next lesson, or ends the run after the last  *)
(* one; Esc ends the whole run, after which nothing is sampled or run;     *)
(* every other key leaves main in the 'hold loop with nothing changed.     *)
C16_HoldKeys ==
    /\ [](mpc = "hold" => report.lesson = lesson)
    /\ [][(mpc = "hold" /\ last'.op = "hold_key")
            => /\ last'.code = KeyEnter
                    => IF lesson < NumLessons
                         THEN mpc' = "lesson" /\ lesson' = lesson + 1
                         ELSE mpc' = "done" /\ lesson' = lesson
               /\ last'.code = KeyEsc => (mpc' = "done" /\ lesson' = lesson)
               /\ last'.code \notin {KeyEnter, KeyEsc}
                    => UNCHANGED <<pc, mpc, lesson, report, finished_words,
                                   test_word, test_words, words, allowed>>]_vars
    /\ [][mpc = "hold" => last'.op \in {"hold_key", "hold_error"}]_vars
    /\ [][mpc # "done"]_vars

C16_Witness ==
    /\ mpc = "done"
    /\ lesson = 2
    /\ last.op = "hold_key"
    /\ last.code = KeyEsc

(* C18: a failed read, or a failed clock reading, ends typing_test and     *)
(* main at once with the error: no TestResults exist, nothing is printed   *)
(* for the lesson, and no step follows (no retry, no later lesson).        *)
C18_ErrorsAreFatal ==
    /\ [](last.op \in {"read_error", "clock_error"}
            => /\ pc = "failed"
               /\ mpc = "failed"
               /\ finished_words = <<>>
               /\ report.lesson = lesson - 1)
    /\ [][pc # "failed" /\ mpc # "failed"]_vars

C18_Witness ==
    /\ last.op = "clock_error"
    /\ mpc = "failed"
    /\ lesson = 2
    /\ report.lesson = 1

-----------------------------------------------------------------------------
(* C21: wpm_avg never divides by zero: of the TestResults typing_test      *)
(* returns, either no word is finished and wpm_avg is 0.0, or the summed   *)
(* duration it divides by is greater than zero.                            *)
C21_WpmDivisorPositive ==
    pc = "returned"
      => IF finished_words = <<>>
           THEN wpm_avg(finished_words) = f64(0)
           ELSE /\ total_duration(finished_words) > 0
                /\ f64_is_finite(wpm_avg(finished_words))

-----------------------------------------------------------------------------
(* C22: a space typed while the typed buffer differs from the target is    *)
(* handled by add_char as an ordinary character: it is appended to the     *)
(* typed buffer, logged as a Typo against the expected character when it   *)
(* falls within the target and not logged when it overflows; the word is   *)
(* not finalised and the queue does not advance.                           *)
C22_SpaceOnIncomplete ==
    [][(/\ pc = "loop"
        /\ nops' = nops + 1
        /\ last'.op \in {"add_char", "finalise"}
        /\ last'.c = " "
        /\ test_word.typed # test_word.value)
         => /\ last'.op = "add_char"
            /\ pc' = "loop"
            /\ test_word'.value = test_word.value
            /\ test_word'.typed = Append(test_word.typed, " ")
            /\ IF typed_len(test_word) < len(test_word)
                 THEN test_word'.metrics =
                        Append(test_word.metrics,
                               Typo(" ", test_word.value[typed_len(test_word) + 1],
                                    last'.dt))
                 ELSE test_word'.metrics = test_word.metrics
            /\ UNCHANGED <<finished_words, test_words>>]_vars

-----------------------------------------------------------------------------
\* typing_test panics at entry on an empty queue, and nothing follows
PanicsOnEmptyQueue ==
    /\ []((last.op = "start" /\ words = <<>>)
            => /\ pc = "panicked"
               /\ finished_words = <<>>
               /\ nops = 0)
    /\ [](pc = "returned" => words # <<>>)
    /\ [][pc # "panicked"]_vars

(* C23: typing_test started with an empty queue returns no TestResults: it *)
(* panics at the first pop_front().unwrap(), before an event is read; and  *)
(* main never prints the figures of an empty TestResults.                  *)
C23_NoEmptyResults ==
    /\ PanicsOnEmptyQueue
    /\ [](mpc = "hold" => finished_words # <<>>)

(* C23, amended: typing_test started with an empty queue returns no        *)
(* TestResults: it panics at the first pop_front().unwrap(), before an     *)
(* event is read.  main never starts it with an empty queue, but main does *)
(* print the figures of an empty TestResults (0.0 and 0) when Esc ends a   *)
(* lesson before its first word is finalised, and only then.               *)
C23_EmptyResultsOnlyByEsc ==
    /\ PanicsOnEmptyQueue
    /\ [](mpc = "typing" => words # <<>>)
    /\ [][(mpc = "typing" /\ mpc' = "hold" /\ finished_words = <<>>)
            => /\ last.op = "esc"
               /\ report'.wpm = f64(0)
               /\ report'.typos = 0]_vars

C23_Witness ==
    /\ pc = "panicked"
    /\ last.op = "start"
    /\ words = <<>>
    /\ test_words = <<>>

-----------------------------------------------------------------------------
\* the letters, small and capital
Letters ==
    << <<"a", "A">>, <<"b", "B">>, <<"c", "C">>, <<"d", "D">>, <<"e", "E">>,
       <<"f", "F">>, <<"g", "G">>, <<"h", "H">>, <<"i", "I">>, <<"j", "J">>,
       <<"k", "K">>, <<"l", "L">>, <<"m", "M">>, <<"n", "N">>, <<"o", "O">>,
       <<"p", "P">>, <<"q", "Q">>, <<"r", "R">>, <<"s", "S">>, <<"t", "T">>,
       <<"u", "U">>, <<"v", "V">>, <<"w", "W">>, <<"x", "X">>, <<"y", "Y">>,
       <<"z", "Z">> >>

ToLowercase(c) ==
    IF \E i \in DOMAIN Letters : Letters[i][2] = c
      THEN Letters[CHOOSE i \in DOMAIN Letters : Letters[i][2] = c][1]
      ELSE c

(* C24: the Display text of the Key that key_code_to_key gives for a       *)
(* character contains the character or its lowercase form, and two         *)
(* different Keys have different Display texts.                            *)
C24_TablesAgree ==
    /\ (pc = "keyboard" /\ event_code.kind = "Char" /\ pressed.some)
         => \/ event_code.c \in chars_of(Display(pressed.key))
            \/ ToLowercase(event_code.c) \in chars_of(Display(pressed.key))
    /\ (pc = "keyboard" /\ last.op = "key_pressed"
          /\ last.pressed.some /\ pressed.some
          /\ last.pressed.key # pressed.key)
         => Display(last.pressed.key) # Display(pressed.key)

(* C25: the unreachable!() arm of key_code_to_key is never reached: every  *)
(* character key code, the space and what map_qwerty_to_dvorak returns     *)
(* among them, has a Key, and every other key code gives None.             *)
C25_UnreachableNotReached ==
    /\ pc # "panicked"
    /\ event_code # NoKey
         => /\ key_code_to_key(event_code) # Unreachable
            /\ key_code_to_key(map_qwerty_to_dvorak(event_code)) # Unreachable
            /\ event_code.kind = "Char" => pressed.some
            /\ event_code.kind # "Char" => pressed = None

=============================================================================
